---- MODULE Spec2Model ----
(***************************************************************************)
(* A model of pyoframe.model.Model (src/src/pyoframe/model.py): the        *)
(* construction of the solver handle, the attribute protocol that binds    *)
(* variables and constraints, the objective and sense setters, and the     *)
(* operations that go through the solver handle, including dispose().      *)
(*                                                                         *)
(* One behaviour is the life of one Model object.  Every action is one     *)
(* call made by the user; `last` records that call and how it ended.       *)
(* Attribute assignments are made to names that are not reserved and to    *)
(* the three reserved names that are property setters (objective,          *)
(* minimize, maximize); the private fields are written by the class only.  *)
(***************************************************************************)
EXTENDS Integers, Sequences, FiniteSets

\* ------------------------------------------------------------------ bounds
NumVariables == 2       \* Variable objects the user holds
NumConstraints == 1     \* Constraint objects the user holds
MaxShape == 2           \* most index tuples in the shape of one element
NumObjValues == 1       \* distinct expressions usable as an objective
MaxFirstIndex == 1      \* largest index a solver may hand back for its first variable

\* --------------------------------------------------------------- constants
CONST_TERM == 0

SUPPORTED_SOLVERS == <<"gurobi", "highs", "ipopt">>

Reserved ==
    {"_variables", "_constraints", "_objective", "var_map", "io_mappers",
     "name", "solver", "poi", "params", "result", "attr", "sense",
     "objective", "_use_var_names", "ONE", "solver_name", "minimize",
     "maximize"}

\* Attributes every Model has through its class, whatever was assigned:
\* hasattr() is true of them from the start.
ClassAttrs ==
    {"use_var_names", "create_poi_model", "variables", "binary_variables",
     "integer_variables", "constraints", "write", "optimize",
     "convert_to_fixed", "compute_IIS", "dispose"}

\* The attribute names the user assigns to in this model: two free names and
\* the name of a method.
FreeNames == {"X", "Y"}
Names == FreeNames \cup {"convert_to_fixed"}

\* ------------------------------------------------------------------ values
\* A Python value is a record: its class, its identity, and for an Objective
\* its _constructive flag.
Val(k, i, c) == [kind |-> k, id |-> i, constructive |-> c]

NoValue == Val("none", 0, FALSE)

VariableObjs == {Val("Variable", i, FALSE) : i \in 1..NumVariables}
ConstraintObjs == {Val("Constraint", i, FALSE) : i \in 1..NumConstraints}
ExpressionObjs == {Val("Expression", i, FALSE) : i \in 1..NumObjValues}
ObjectiveObjs == {Val("Objective", i, c) : i \in 1..NumObjValues, c \in BOOLEAN}
DataFrameObjs == {Val("polars.DataFrame", 1, FALSE)}
OtherObjs == {Val("int", 1, FALSE)}

\* What the user may assign to a non-reserved attribute.
AttrValues ==
    VariableObjs \cup ConstraintObjs \cup {Val("Expression", 1, FALSE)}
        \cup DataFrameObjs \cup OtherObjs

\* What the user may assign to .objective, .minimize and .maximize.
ObjValues == ExpressionObjs \cup ObjectiveObjs

\* isinstance(v, ModelElementWithId), isinstance(v, ModelElement),
\* isinstance(v, (pl.DataFrame, pd.DataFrame)), isinstance(v, Objective)
IsModelElementWithId(v) == v.kind \in {"Variable", "Constraint"}
IsModelElement(v) ==
    v.kind \in {"Variable", "Constraint", "Expression", "Objective"}
IsDataFrame(v) == v.kind \in {"polars.DataFrame", "pandas.DataFrame"}
IsObjective(v) == v.kind = "Objective"

\* The elements that carry ids.
ElementObjs == VariableObjs \cup ConstraintObjs

\* The number of index tuples in the shape of an element: fixed when the
\* user creates it, before it meets the model.
Shape(v) == ((v.id - 1) % MaxShape) + 1

\* ------------------------------------------------------------------- state
VARIABLES
    phase,          \* "new": not constructed; "live": __init__ returned; "failed": __init__ raised
    solver_name,    \* self.solver_name
    has_poi,        \* whether the attribute self.poi exists
    poi_one,        \* the solver's record of the variable named ONE
    poi_nvars,      \* number of variables the solver holds (the next index it hands out)
    poi_ncons,      \* number of constraints the solver holds
    sense,          \* self.sense
    objective,      \* self._objective
    variables,      \* self._variables, each entry with the name it was appended under
    constraints,    \* self._constraints, likewise
    attrs,          \* the instance attributes under non-reserved names
    bound_name,     \* per element: the name on_add_to_model gave it, or "" when unbound
    ids,            \* per element: the ids it received when bound
    last            \* the call just made and its result

vars ==
    <<phase, solver_name, has_poi, poi_one, poi_nvars, poi_ncons, sense,
      objective, variables, constraints, attrs, bound_name, ids, last>>

Call(op, n, v, r) == [op |-> op, name |-> n, arg |-> v, result |-> r]

NoVariable == [index |-> -1, lb |-> 0, ub |-> 0]

Init ==
    /\ phase = "new"
    /\ solver_name = "None"
    /\ has_poi = FALSE
    /\ poi_one = NoVariable
    /\ poi_nvars = 0
    /\ poi_ncons = 0
    /\ sense = "None"
    /\ objective = NoValue
    /\ variables = <<>>
    /\ constraints = <<>>
    /\ attrs = [n \in FreeNames |-> NoValue]
    /\ bound_name = [o \in ElementObjs |-> ""]
    /\ ids = [o \in ElementObjs |-> <<>>]
    /\ last = Call("none", "", NoValue, "ok")

\* ------------------------------------------------------------ construction
\* Model(solver=..., sense=..., use_var_names=...) with Config.default_solver.
\* "None" stands for Python's None.  solver_env only changes how the gurobi
\* handle is built (lines 126-133), not which of the outcomes below happens.
SolverArgs == {"None", "gurobi", "highs", "ipopt", "HiGHS", "cplex"}
DefaultSolvers == {"None", "gurobi", "highs", "ipopt"}
SenseArgs == {"None", "min", "max", "maximise"}

\* str.lower() on the solver names used here.
Lower(s) == IF s = "HiGHS" THEN "highs" ELSE s

SolverNames == {SUPPORTED_SOLVERS[i] : i \in 1..Len(SUPPORTED_SOLVERS)}

\* What the environment does when a solver's model is built: the solver's
\* constructor raises RuntimeError (not installed, no licence), or it returns
\* a model whose first add_variable hands back `index`.
SolverOutcomes == [raises : BOOLEAN, index : 0..MaxFirstIndex]

\* The Enum lookup ObjSense(value): the member with that value, else ValueError.
ObjSense(s) ==
    CASE s = "min" -> "MIN"
      [] s = "max" -> "MAX"
      [] OTHER -> "ValueError"

\* self.sense = ObjSense(sense) if sense is not None else None
InitialSense(s) == IF s # "None" THEN ObjSense(s) ELSE "None"

\* model.add_variable(lb=1, ub=1, name="ONE")
ConstantVar(idx) == [index |-> idx, lb |-> 1, ub |-> 1]

\* create_poi_model without the add_variable call for ONE.
PoiAfterCreateEmpty(idx) == [one |-> NoVariable, nvars |-> 0]

\* The solver model create_poi_model hands over: it holds the variable ONE
\* and nothing else.
PoiAfterCreate(idx) == [one |-> ConstantVar(idx), nvars |-> 1]

\* The index check left out.
IndexAcceptedAny(idx) == TRUE

\* constant_var.index != CONST_TERM raises; this is the negation.
IndexAccepted(idx) == idx = CONST_TERM

Attempt(s, r) == [solver |-> s, result |-> r]

\* except Exception: pass
CaughtAny(err) == TRUE

\* except RuntimeError: pass
Caught(err) == err = "RuntimeError"

\* create_poi_model(solver, solver_env) with solver given: lines 122-152.
CreateNamed(s0, out) ==
    LET s == Lower(s0) IN
    IF s \notin SolverNames
    THEN [ok |-> FALSE, solver |-> s, index |-> -1,
          error |-> "ValueError: solver not recognized"]
    ELSE IF out[s].raises
    THEN [ok |-> FALSE, solver |-> s, index |-> -1, error |-> "RuntimeError"]
    ELSE IF ~IndexAccepted(out[s].index)
    THEN [ok |-> FALSE, solver |-> s, index |-> out[s].index,
          error |-> "ValueError: first variable should have index 0"]
    ELSE [ok |-> TRUE, solver |-> s, index |-> out[s].index, error |-> "ok"]

\* The loop over SUPPORTED_SOLVERS from position i, lines 111-118; `tried`
\* collects the attempts made so far.
RECURSIVE AutoDetect(_, _, _)
AutoDetect(i, tried, out) ==
    IF i > Len(SUPPORTED_SOLVERS)
    THEN [ok |-> FALSE, solver |-> "None", index |-> -1, tried |-> tried,
          error |-> "ValueError: Could not automatically find a solver"]
    ELSE LET r == CreateNamed(SUPPORTED_SOLVERS[i], out)
             t == Append(tried, Attempt(r.solver, r.error))
         IN  IF r.ok \/ ~Caught(r.error)
             THEN [ok |-> r.ok, solver |-> r.solver, index |-> r.index,
                   tried |-> t, error |-> r.error]
             ELSE AutoDetect(i + 1, t, out)

\* create_poi_model as __init__ calls it.
CreatePoiModel(solver, default_solver, out) ==
    IF solver = "None" /\ default_solver = "None"
    THEN AutoDetect(1, <<>>, out)
    ELSE LET s == IF solver = "None" THEN default_solver ELSE solver
             r == CreateNamed(s, out)
         IN  [ok |-> r.ok, solver |-> r.solver, index |-> r.index,
              tried |-> <<Attempt(r.solver, r.error)>>, error |-> r.error]

\* The record of a constructor call: its arguments, the attempts made on
\* solvers in order, the index handed back for the variable ONE (-1 when
\* none was added), and the error raised or "ok".
InitCall(solver, default_solver, sense_arg, r, err) ==
    [op |-> "__init__", name |-> "", arg |-> NoValue, result |-> err,
     solver |-> solver, default_solver |-> default_solver,
     sense |-> sense_arg, tried |-> r.tried, const_index |-> r.index]

\* Model.__init__
Construct(solver, default_solver, sense_arg, out) ==
    /\ phase = "new"
    /\ LET r == CreatePoiModel(solver, default_solver, out)
           sn == InitialSense(sense_arg)
           err == IF ~r.ok THEN r.error
                  ELSE IF sn = "ValueError"
                  THEN "ValueError: not a valid ObjSense" ELSE "ok"
       IN
       /\ last' = InitCall(solver, default_solver, sense_arg, r, err)
       /\ IF err = "ok"
          THEN /\ phase' = "live"
               /\ solver_name' = r.solver
               /\ has_poi' = TRUE
               /\ poi_one' = PoiAfterCreate(r.index).one
               /\ poi_nvars' = PoiAfterCreate(r.index).nvars
               /\ sense' = sn
          ELSE /\ phase' = "failed"
               /\ UNCHANGED <<solver_name, has_poi, poi_one, poi_nvars, sense>>
    /\ UNCHANGED <<poi_ncons, objective, variables, constraints, attrs,
                   bound_name, ids>>

\* ------------------------------------------------------- attribute protocol
\* A check of the class only, blind to what was assigned.
HasAttrClassOnly(n) == n \in ClassAttrs

\* hasattr(self, name): an instance attribute or one of the class.
HasAttr(n) == n \in ClassAttrs \/ attrs[n] # NoValue

\* The first check with the test of the name inverted.
TypeRejectedReserved(n, v) ==
    n \in Reserved /\ ~(IsModelElement(v) \/ IsDataFrame(v))

\* The first check of __setattr__: the name is not reserved and the value is
\* neither a ModelElement nor a dataframe.
TypeRejected(n, v) == n \notin Reserved /\ ~(IsModelElement(v) \/ IsDataFrame(v))

\* assert not hasattr(self, __name), for elements that carry ids.
NameRejected(n, v) == IsModelElementWithId(v) /\ HasAttr(n)

\* The ids start, start+1, ..., start+k-1.
Consecutive(start, k) == [i \in 1..k |-> start + i - 1]

\* on_add_to_model of a Variable, Constraint or Expression: the error it
\* raises, or "ok".  An element that carries ids is bound once, and
\* receives its ids from the solver handle of the model.
OnAddError(v) ==
    IF ~IsModelElementWithId(v) THEN "ok"
    ELSE IF bound_name[v] # "" THEN "AssertionError: already bound"
    ELSE IF ~has_poi THEN "AttributeError: no attribute poi"
    ELSE "ok"

\* on_add_to_model when it returns: an element that carries ids takes the
\* name, and one id per index tuple of its shape from the counter of its
\* class; an Expression only notes the model and the name, which nothing
\* here reads.
OnAddToModel(v, n) ==
    IF v.kind = "Variable"
    THEN /\ bound_name' = [bound_name EXCEPT ![v] = n]
         /\ ids' = [ids EXCEPT ![v] = Consecutive(poi_nvars, Shape(v))]
         /\ poi_nvars' = poi_nvars + Shape(v)
         /\ UNCHANGED poi_ncons
    ELSE IF v.kind = "Constraint"
    THEN /\ bound_name' = [bound_name EXCEPT ![v] = n]
         /\ ids' = [ids EXCEPT ![v] = Consecutive(poi_ncons, Shape(v))]
         /\ poi_ncons' = poi_ncons + Shape(v)
         /\ UNCHANGED poi_nvars
    ELSE UNCHANGED <<bound_name, ids, poi_nvars, poi_ncons>>

Entry(v, n) == [obj |-> v, name |-> n]

\* The append moved before the call of on_add_to_model.
VariablesAfterEarly(v, n, called, returned) ==
    IF called /\ v.kind = "Variable" THEN Append(variables, Entry(v, n))
    ELSE variables

\* self._variables after __setattr__(n, v): `called` says whether the call
\* reached on_add_to_model, `returned` whether that call returned (the
\* append follows it).
VariablesAfter(v, n, called, returned) ==
    IF called /\ returned /\ v.kind = "Variable"
    THEN Append(variables, Entry(v, n))
    ELSE variables

\* self._constraints after __setattr__(n, v), likewise.
ConstraintsAfter(v, n, called, returned) ==
    IF called /\ returned /\ v.kind = "Constraint"
    THEN Append(constraints, Entry(v, n))
    ELSE constraints

\* The error __setattr__(n, v) raises, or "ok".
SetAttrError(n, v) ==
    IF TypeRejected(n, v)
    THEN "PyoframeError: not a ModelElement"
    ELSE IF IsModelElement(v) /\ n \notin Reserved
    THEN IF NameRejected(n, v) THEN "AssertionError: already created"
         ELSE OnAddError(v)
    ELSE "ok"

\* m.<n> = v for a name that is not reserved: Model.__setattr__.
SetAttr(n, v) ==
    /\ phase = "live"
    /\ LET err == SetAttrError(n, v)
           called == IsModelElement(v) /\ n \notin Reserved
                        /\ ~TypeRejected(n, v) /\ ~NameRejected(n, v)
       IN
       /\ last' = Call("setattr", n, v, err)
       /\ variables' = VariablesAfter(v, n, called, err = "ok")
       /\ constraints' = ConstraintsAfter(v, n, called, err = "ok")
       /\ IF err = "ok"
          THEN /\ attrs' = [attrs EXCEPT ![n] = v]
               /\ IF called THEN OnAddToModel(v, n)
                  ELSE UNCHANGED <<bound_name, ids, poi_nvars, poi_ncons>>
          ELSE UNCHANGED <<attrs, bound_name, ids, poi_nvars, poi_ncons>>
    /\ UNCHANGED <<phase, solver_name, has_poi, poi_one, sense, objective>>

\* ------------------------------------------------------- objective and sense
\* The guard without the test of _constructive.
ObjectiveRejectedNoFlag(v) == objective # NoValue /\ ~IsObjective(v)

\* The guard of the objective setter: an objective exists and the value is
\* not an Objective flagged _constructive.
ObjectiveRejected(v) ==
    objective # NoValue /\ (~IsObjective(v) \/ ~v.constructive)

\* Objective(value): a new object, not constructive; an Objective is kept.
AsObjective(v) ==
    IF ~IsObjective(v) THEN Val("Objective", v.id + NumObjValues, FALSE) ELSE v

\* Objective.on_add_to_model(model, "objective") hands the objective to the
\* solver and so needs the handle: the error it raises, or "ok".
ObjectiveOnAddError ==
    IF has_poi THEN "ok" ELSE "AttributeError: no attribute poi"

\* The error the objective setter raises for v, or "ok".
ObjectiveSetterError(v) ==
    IF ObjectiveRejected(v) THEN "ValueError: An objective already exists"
    ELSE ObjectiveOnAddError

\* self._objective after the objective setter ran on v: the assignment comes
\* after the guard and before on_add_to_model.
ObjectiveAfter(v) == IF ObjectiveRejected(v) THEN objective ELSE AsObjective(v)

\* m.objective = v
SetObjective(v) ==
    /\ phase = "live"
    /\ last' = Call("objective", "objective", v, ObjectiveSetterError(v))
    /\ objective' = ObjectiveAfter(v)
    /\ UNCHANGED <<phase, solver_name, has_poi, poi_one, poi_nvars, poi_ncons,
                   sense, variables, constraints, attrs, bound_name, ids>>

\* The minimize setter without `if self.sense is None`.
SenseAfterMinimizeAlways == "MIN"

\* self.sense after the first two lines of the minimize / maximize setter.
SenseAfterMinimize == IF sense = "None" THEN "MIN" ELSE sense
SenseAfterMaximize == IF sense = "None" THEN "MAX" ELSE sense

\* m.minimize = v
SetMinimize(v) ==
    /\ phase = "live"
    /\ sense' = SenseAfterMinimize
    /\ IF SenseAfterMinimize # "MIN"
       THEN /\ last' = Call("minimize", "minimize", v,
                            "ValueError: Can't set .minimize in a maximization problem")
            /\ UNCHANGED objective
       ELSE /\ last' = Call("minimize", "minimize", v, ObjectiveSetterError(v))
            /\ objective' = ObjectiveAfter(v)
    /\ UNCHANGED <<phase, solver_name, has_poi, poi_one, poi_nvars, poi_ncons,
                   variables, constraints, attrs, bound_name, ids>>

\* m.maximize = v
SetMaximize(v) ==
    /\ phase = "live"
    /\ sense' = SenseAfterMaximize
    /\ IF SenseAfterMaximize # "MAX"
       THEN /\ last' = Call("maximize", "maximize", v,
                            "ValueError: Can't set .maximize in a minimization problem")
            /\ UNCHANGED objective
       ELSE /\ last' = Call("maximize", "maximize", v, ObjectiveSetterError(v))
            /\ objective' = ObjectiveAfter(v)
    /\ UNCHANGED <<phase, solver_name, has_poi, poi_one, poi_nvars, poi_ncons,
                   variables, constraints, attrs, bound_name, ids>>

\* ------------------------------------------------ through the solver handle
\* Reading self.poi: AttributeError once the attribute is deleted.
PoiError == IF has_poi THEN "ok" ELSE "AttributeError: no attribute poi"

\* @for_solvers(...): the method is there for the named solvers only.
ForSolversError(allowed) ==
    IF solver_name \in allowed THEN "ok" ELSE "NotImplementedError"

\* What stays as it is in a call that only goes through the handle.
ModelUnchanged ==
    UNCHANGED <<phase, solver_name, poi_one, poi_nvars, poi_ncons, sense,
                objective, variables, constraints, attrs, bound_name, ids>>

\* m.optimize()
Optimize ==
    /\ phase = "live"
    /\ last' = Call("optimize", "", NoValue, PoiError)
    /\ UNCHANGED has_poi
    /\ ModelUnchanged

\* m.write(path): ipopt is refused first; with highs and use_var_names a
\* parameter is set (_set_param) before the write; both go through the
\* handle, so the handle decides the outcome for gurobi and highs alike.
WriteError ==
    IF solver_name = "ipopt" THEN "NotImplementedError" ELSE PoiError

Write ==
    /\ phase = "live"
    /\ last' = Call("write", "", NoValue, WriteError)
    /\ UNCHANGED has_poi
    /\ ModelUnchanged

\* m.params.<name> = value and m.params.<name>: _set_param, _get_param
SetParam ==
    /\ phase = "live"
    /\ last' = Call("set_param", "", NoValue, PoiError)
    /\ UNCHANGED has_poi
    /\ ModelUnchanged

GetParam ==
    /\ phase = "live"
    /\ last' = Call("get_param", "", NoValue, PoiError)
    /\ UNCHANGED has_poi
    /\ ModelUnchanged

\* _set_attr / _get_attr: self.poi is read first; a name poi.ModelAttribute
\* does not know raises KeyError, which only gurobi turns into a raw attribute.
AttrError(known) ==
    IF ~has_poi THEN PoiError
    ELSE IF known \/ solver_name = "gurobi" THEN "ok"
    ELSE "KeyError"

SetModelAttr(known) ==
    /\ phase = "live"
    /\ last' = Call("set_attr", "", NoValue, AttrError(known))
    /\ UNCHANGED has_poi
    /\ ModelUnchanged

GetModelAttr(known) ==
    /\ phase = "live"
    /\ last' = Call("get_attr", "", NoValue, AttrError(known))
    /\ UNCHANGED has_poi
    /\ ModelUnchanged

\* v.solution for a variable bound to the model: read through model.poi.
ReadSolution(v) ==
    /\ phase = "live"
    /\ bound_name[v] # ""
    /\ last' = Call("solution", "", v, PoiError)
    /\ UNCHANGED has_poi
    /\ ModelUnchanged

\* dispose() without `del self.poi`.
PoiKeptAfterDispose == TRUE

\* Whether self.poi exists after dispose() ran to its end.
PoiAfterDispose == FALSE

\* The error dispose() raises, or "ok".
DisposeError ==
    IF ForSolversError({"gurobi"}) # "ok" THEN ForSolversError({"gurobi"})
    ELSE PoiError

\* m.dispose()
Dispose ==
    /\ phase = "live"
    /\ last' = Call("dispose", "", NoValue, DisposeError)
    /\ has_poi' = IF DisposeError = "ok" THEN PoiAfterDispose ELSE has_poi
    /\ ModelUnchanged

\* ---------------------------------------------------------- specification
\* The constructor calls with the sense argument drawn from `senses`.
Constructs(senses) ==
    \E s \in SolverArgs, d \in DefaultSolvers, sn \in senses,
       out \in [SolverNames -> SolverOutcomes] : Construct(s, d, sn, out)

\* The assignments m.<n> = v of the model: any value to a free name; to the
\* name of a method only the values the code refuses there (an Expression or
\* a dataframe would shadow the method, which is no part of this model).
AttrCalls(values) ==
    {c \in Names \X values :
        c[1] \in FreeNames \/ IsModelElementWithId(c[2])
            \/ ~(IsModelElement(c[2]) \/ IsDataFrame(c[2]))}

Next ==
    \/ Constructs(SenseArgs)
    \/ \E c \in AttrCalls(AttrValues) : SetAttr(c[1], c[2])
    \/ \E v \in ObjValues : SetObjective(v)
    \/ \E v \in ObjValues : SetMinimize(v)
    \/ \E v \in ObjValues : SetMaximize(v)
    \/ Optimize
    \/ Write
    \/ SetParam
    \/ GetParam
    \/ \E known \in BOOLEAN : SetModelAttr(known)
    \/ \E known \in BOOLEAN : GetModelAttr(known)
    \/ \E v \in VariableObjs : ReadSolution(v)
    \/ Dispose

\* Every call, in any order.  The three specifications below each keep the
\* calls that touch one part of the state; what they establish also holds
\* under this one.
Spec == Init /\ [][Next]_vars

\* The calls that read or write the objective and the sense (sense,
\* objective, has_poi); no other call changes these three.
NextObjective ==
    \/ Constructs(SenseArgs)
    \/ \E v \in ObjValues : SetObjective(v)
    \/ \E v \in ObjValues : SetMinimize(v)
    \/ \E v \in ObjValues : SetMaximize(v)
    \/ Dispose

SpecObjective == Init /\ [][NextObjective]_vars

\* The calls that read or write what binding is about (attrs, variables,
\* constraints, bound_name, ids, the solver's counters, has_poi).  None of
\* them reads or writes the sense: the model is built without one.
NextBinding ==
    \/ Constructs({"None"})
    \/ \E c \in AttrCalls(AttrValues) : SetAttr(c[1], c[2])
    \/ \E v \in VariableObjs : ReadSolution(v)
    \/ Dispose

SpecBinding == Init /\ [][NextBinding]_vars

\* The calls that go through the solver handle, with the binding of
\* variables (a solution is read through a bound variable) and dispose().
NextHandle ==
    \/ Constructs(SenseArgs)
    \/ \E c \in AttrCalls(VariableObjs) : SetAttr(c[1], c[2])
    \/ Optimize
    \/ Write
    \/ SetParam
    \/ GetParam
    \/ \E known \in BOOLEAN : SetModelAttr(known)
    \/ \E known \in BOOLEAN : GetModelAttr(known)
    \/ \E v \in VariableObjs : ReadSolution(v)
    \/ Dispose

SpecHandle == Init /\ [][NextHandle]_vars

\* ------------------------------------------------------------------ claims
ObjectiveOps == {"objective", "minimize", "maximize"}

\* A value produced by += or -= on an objective.
IsAdditive(v) == v.kind = "Objective" /\ v.constructive

ObjectiveValueErrors ==
    {"ValueError: An objective already exists",
     "ValueError: Can't set .minimize in a maximization problem",
     "ValueError: Can't set .maximize in a minimization problem"}

\* C1: on a model whose objective is set, an assignment through .objective,
\* .minimize or .maximize of a value that is not an additive update raises
\* ValueError and leaves the stored objective as it was; whenever the stored
\* objective does change, the value assigned was an additive update and is
\* what is stored.
C1_ObjectiveReplacedOnlyAdditively ==
    [][(phase = "live" /\ objective # NoValue /\ last'.op \in ObjectiveOps)
          => /\ ~IsAdditive(last'.arg)
                  => /\ last'.result \in ObjectiveValueErrors
                     /\ objective' = objective
             /\ objective' # objective
                  => IsAdditive(last'.arg) /\ objective' = last'.arg]_vars

\* C1 witness: a plain value was just refused on a model that has an objective.
C1_Witness ==
    /\ phase = "live"
    /\ last.op \in ObjectiveOps
    /\ last.result = "ValueError: An objective already exists"
    /\ ~IsAdditive(last.arg)
    /\ objective # NoValue

\* C7: the sense the constructor was given stays; with none given, the first
\* .minimize makes it MIN and the first .maximize makes it MAX; .minimize on
\* a MAX model and .maximize on a MIN model raise ValueError; and no call
\* changes a sense that is set.
C7_SenseFixedOnceSet ==
    [][/\ (phase = "new" /\ phase' = "live")
            => sense' = (CASE last'.sense = "min" -> "MIN"
                           [] last'.sense = "max" -> "MAX"
                           [] OTHER -> "None")
       /\ phase = "live"
            => /\ sense # "None" => sense' = sense
               /\ (sense = "None" /\ last'.op = "minimize") => sense' = "MIN"
               /\ (sense = "None" /\ last'.op = "maximize") => sense' = "MAX"
               /\ (sense = "MAX" /\ last'.op = "minimize")
                    => last'.result =
                         "ValueError: Can't set .minimize in a maximization problem"
               /\ (sense = "MIN" /\ last'.op = "maximize")
                    => last'.result =
                         "ValueError: Can't set .maximize in a minimization problem"]_vars

\* C7 witness: .minimize was just refused on a model whose sense is MAX.
C7_Witness ==
    /\ phase = "live"
    /\ sense = "MAX"
    /\ last.op = "minimize"
    /\ last.result = "ValueError: Can't set .minimize in a maximization problem"

\* C10: an assignment to .minimize or .maximize that raises leaves the sense
\* and the stored objective as they were.
C10_FailedAssignmentChangesNothing ==
    [][(phase = "live" /\ last'.op \in {"minimize", "maximize"}
            /\ last'.result # "ok")
          => (sense' = sense /\ objective' = objective)]_vars

\* The elements of both collections, variables first.
Entries(vs, cs) == vs \o cs

\* No two elements of the collections were appended under the same name.
NamesUnique(vs, cs) ==
    \A i, j \in 1..Len(Entries(vs, cs)) :
        i # j => Entries(vs, cs)[i].name # Entries(vs, cs)[j].name

\* The model has the attribute n: through its class or by an assignment.
NameTaken(n) == n \in ClassAttrs \/ (n \in FreeNames /\ attrs[n] # NoValue)

\* C2: no two elements of the variables and constraints collections were
\* bound under the same name; assigning a Variable or Constraint to a name
\* the model already has raises AssertionError; and an assignment that
\* raises adds nothing to either collection.
C2_NamesUniqueAndRejectionAddsNothing ==
    [][/\ NamesUnique(variables', constraints')
       /\ (phase = "live" /\ last'.op = "setattr")
            => /\ (IsModelElementWithId(last'.arg) /\ NameTaken(last'.name))
                    => last'.result = "AssertionError: already created"
               /\ last'.result # "ok"
                    => variables' = variables /\ constraints' = constraints]_vars

\* C2 witness: with an element registered under a free name, a Variable or
\* Constraint was just refused for that name.
C2_Witness ==
    /\ phase = "live"
    /\ last.op = "setattr"
    /\ last.result = "AssertionError: already created"
    /\ IsModelElementWithId(last.arg)
    /\ last.name \in FreeNames
    /\ \E i \in 1..Len(Entries(variables, constraints)) :
           Entries(variables, constraints)[i].name = last.name

\* How often v is in the sequence vs.
Occurrences(vs, v) == Cardinality({i \in 1..Len(vs) : vs[i].obj = v})

BindingErrors ==
    {"AssertionError: already created", "AssertionError: already bound"}

C3_WitnessOtherName ==
    /\ phase = "live"
    /\ last.op = "setattr"
    /\ last.arg \in VariableObjs
    /\ last.result = "AssertionError: already bound"
    /\ last.name \in FreeNames
    /\ attrs[last.name] = NoValue
    /\ Occurrences(variables, last.arg) = 1

\* C11: every Variable in the variables collection and every Constraint in
\* the constraints collection is the value of the model attribute it was
\* bound under; no later assignment to that name (an Expression or a
\* dataframe, which the duplicate-name check lets through) replaces the
\* attribute while the element stays in its collection.
C11_RegisteredElementsKeepTheirAttribute ==
    phase = "live"
      => \A i \in 1..Len(Entries(variables, constraints)) :
            LET e == Entries(variables, constraints)[i]
            IN  e.name \in FreeNames /\ attrs[e.name] = e.obj

\* The ids of the variables of the collection vs, in binding order.
RECURSIVE AllIds(_, _)
AllIds(vs, idf) ==
    IF vs = <<>> THEN <<>> ELSE idf[Head(vs).obj] \o AllIds(Tail(vs), idf)

StrictlyIncreasing(q) == \A i \in 1..(Len(q) - 1) : q[i] < q[i + 1]

C8_WrongTypeRejected ==
    [][(phase = "live" /\ last'.op = "setattr" /\ last'.name \notin Reserved
            /\ last'.arg.kind \notin
                  {"Variable", "Constraint", "Expression", "Objective",
                   "polars.DataFrame", "pandas.DataFrame"})
          => /\ last'.result = "PyoframeError: not a ModelElement"
             /\ attrs' = attrs
             /\ variables' = variables
             /\ constraints' = constraints]_vars

\* C8 witness: an int was just refused for a free name, which stays unset.
C8_Witness ==
    /\ phase = "live"
    /\ last.op = "setattr"
    /\ last.arg \in OtherObjs
    /\ last.result = "PyoframeError: not a ModelElement"
    /\ last.name \in FreeNames
    /\ attrs[last.name] = NoValue

\* C4: a constructed model whose handle exists holds the variable ONE at
\* index 0 with lower and upper bound 1, counted by the solver before any
\* variable of the user; nothing is bound to a model that is not
\* constructed; and a constructor call in which the solver handed back
\* another index for ONE raised ValueError and made no model.
C4_ConstantTermVariable ==
    /\ (phase = "live" /\ has_poi)
          => /\ poi_one = [index |-> 0, lb |-> 1, ub |-> 1]
             /\ poi_nvars >= 1
    /\ phase # "live" => (variables = <<>> /\ \A v \in VariableObjs : ids[v] = <<>>)
    /\ (last.op = "__init__" /\ last.const_index \notin {-1, 0})
          => /\ phase = "failed"
             /\ last.result = "ValueError: first variable should have index 0"

\* C4 witness: a live model with ONE at index 0 and a variable of the user
\* bound after it.
C4_Witness ==
    /\ phase = "live"
    /\ has_poi
    /\ poi_one.index = 0
    /\ Len(variables) >= 1
    /\ poi_nvars > 1

\* C4, the failing case: the solver handed back index 1 and no model was made.
C4_WitnessRefused ==
    /\ phase = "failed"
    /\ last.const_index = 1

HandleOps ==
    {"optimize", "write", "set_param", "get_param", "set_attr", "get_attr",
     "solution"}

\* C6: a dispose() that returns has removed the handle; once the handle of
\* a constructed model is removed it stays removed, and every later
\* optimize, write, parameter or attribute access and solution read raises
\* AttributeError.
C6_NoUseAfterDispose ==
    [][/\ (last'.op = "dispose" /\ last'.result = "ok") => ~has_poi'
       /\ (phase = "live" /\ ~has_poi)
            => /\ ~has_poi'
               /\ last'.op \in HandleOps
                    => last'.result = "AttributeError: no attribute poi"]_vars

\* C6 witness: on a disposed model, the solution of a bound variable was
\* just read, and the read raised.
C6_Witness ==
    /\ phase = "live"
    /\ ~has_poi
    /\ last.op = "solution"
    /\ last.result = "AttributeError: no attribute poi"

\* The constructor was just called with no solver and no default solver.
AutoDetected ==
    /\ last.op = "__init__"
    /\ last.solver = "None"
    /\ last.default_solver = "None"

DetectionOrder == <<"gurobi", "highs", "ipopt">>

\* The solvers were tried in the fixed order, each attempt following a
\* failed one, and a model that was made uses the one that succeeded.
TriedInOrder ==
    /\ Len(last.tried) \in 1..3
    /\ \A i \in 1..Len(last.tried) : last.tried[i].solver = DetectionOrder[i]
    /\ \A i \in 1..(Len(last.tried) - 1) : last.tried[i].result # "ok"
    /\ phase = "live"
          => /\ last.tried[Len(last.tried)].result = "ok"
             /\ solver_name = last.tried[Len(last.tried)].solver

\* C9 as stated: with no solver given and none configured, gurobi, highs and
\* ipopt are tried in this order until one succeeds, the model uses the first
\* that succeeds, and if all fail the last failure is what the caller gets.
C9_LastFailureSurfaced ==
    AutoDetected
      => /\ TriedInOrder
         /\ \A i \in 1..Len(last.tried) :
               (last.tried[i].result # "ok" /\ i < 3) => Len(last.tried) > i
         /\ (Len(last.tried) = 3 /\ last.tried[3].result # "ok")
               => /\ phase = "failed"
                  /\ last.result = last.tried[3].result

\* C9 amended: the solvers are tried in the order gurobi, highs, ipopt; one
\* whose construction raises RuntimeError is passed over for the next; the
\* model uses the first that succeeds and no later one is tried; a failure
\* that is not a RuntimeError reaches the caller at once, with no later
\* solver tried; and when all three raise RuntimeError the caller gets the
\* ValueError that no solver could be found, not the last failure.
C9_AutoDetection ==
    AutoDetected
      => /\ TriedInOrder
         /\ \A i \in 1..(Len(last.tried) - 1) :
               last.tried[i].result = "RuntimeError"
         /\ last.tried[Len(last.tried)].result = "RuntimeError"
               => /\ Len(last.tried) = 3
                  /\ phase = "failed"
                  /\ last.result =
                        "ValueError: Could not automatically find a solver"
         /\ last.tried[Len(last.tried)].result \notin {"ok", "RuntimeError"}
               => /\ phase = "failed"
                  /\ last.result = last.tried[Len(last.tried)].result

\* C9 witness: all three solvers raised RuntimeError.
C9_Witness ==
    /\ AutoDetected
    /\ phase = "failed"
    /\ Len(last.tried) = 3
    /\ \A i \in 1..3 : last.tried[i].result = "RuntimeError"

====
